---------------------------- MODULE Spec2Model ----------------------------
(***************************************************************************)
(* Portfolio Performance Visualizer (src/app.py).                          *)
(*                                                                         *)
(* Python floats are modelled as exact rationals <<n, d>> (d > 0, lowest   *)
(* terms); the "within tolerance" of the spec is therefore exact equality. *)
(* A dict is a sequence of <<key, value>> pairs in insertion order.        *)
(***************************************************************************)
EXTENDS Integers, Sequences, FiniteSets

VARIABLES
    nw_pc, nw_in, nw_out,         \* normalize_weights: position, argument, return value
    portfolio,                    \* get_portfolio_data: the portfolio argument
    pos,                          \* index of the next item of portfolio.items()
    portfolio_data,               \* the DataFrame of daily returns
    valid_symbols,                \* symbols whose download was accepted
    warnings,                     \* st.warning messages, in order
    errors,                       \* st.error messages, in order
    status,                       \* "running", "returned" or "raised"
    result,                       \* the return value
    calls,                        \* yf.download calls made, with what each gave back
    dm_pc,                        \* metrics block: position
    dm_returns,                   \* the four series: benchmark, custom 1, 2, 3
    metrics,                      \* what col.metric was given, per column
    dm_warning,                   \* the "No valid data" warning was shown
    session,                      \* st.session_state: the four portfolios
    step,                         \* script run: 0 before the editors, k at editor k
    written                       \* portfolios an editor has written back

nwVars == <<nw_pc, nw_in, nw_out>>
gpVars == <<portfolio, pos, portfolio_data, valid_symbols, warnings, errors,
            status, result, calls>>
dmVars == <<dm_pc, dm_returns, metrics, dm_warning>>
seVars == <<session, step, written>>
vars == <<nwVars, gpVars, dmVars, seVars>>
notNw == <<gpVars, dmVars, seVars>>
notGp == <<nwVars, dmVars, seVars>>
notDm == <<nwVars, gpVars, seVars>>
notSe == <<nwVars, gpVars, dmVars>>

---------------------------------------------------------------------------
(* Bounds *)

\* Number of distinct symbols a portfolio argument may hold.
MaxSymbols == 3

\* Trading dates of the requested window are 1..MaxDate.
MaxDate == 3

\* Rows of one portfolio editor that are filled in (the form has 10).
MaxRows == 2

---------------------------------------------------------------------------
(* Exact arithmetic standing for Python float arithmetic *)

Abs(x) == IF x < 0 THEN -x ELSE x

RECURSIVE GCD(_, _)
GCD(a, b) == IF b = 0 THEN a ELSE GCD(b, a % b)

\* The rational n/d in lowest terms with a positive denominator.
Rat(n, d) ==
    LET g == GCD(Abs(n), Abs(d))
        s == IF d < 0 THEN -1 ELSE 1
    IN  <<(s * n) \div g, (s * d) \div g>>

Zero == Rat(0, 1)
One == Rat(1, 1)

RAdd(x, y) == Rat(x[1] * y[2] + y[1] * x[2], x[2] * y[2])
RSub(x, y) == Rat(x[1] * y[2] - y[1] * x[2], x[2] * y[2])
RMul(x, y) == Rat(x[1] * y[1], x[2] * y[2])
RDiv(x, y) == Rat(x[1] * y[2], x[2] * y[1])
RPos(x) == x[1] > 0

RECURSIVE RSum(_)
RSum(s) == IF s = <<>> THEN Zero ELSE RAdd(Head(s), RSum(Tail(s)))

\* Python's None (a weight that is absent).
None == <<>>

---------------------------------------------------------------------------
(* dict helpers *)

Keys(d) == [i \in DOMAIN d |-> d[i][1]]
Values(d) == [i \in DOMAIN d |-> d[i][2]]
KeySet(d) == {d[i][1] : i \in DOMAIN d}
HasKey(d, k) == k \in KeySet(d)
Get(d, k) == d[CHOOSE i \in DOMAIN d : d[i][1] = k][2]

\* d[k] = v: an existing key keeps its position, a new key is appended.
DictSet(d, k, v) ==
    IF HasKey(d, k)
    THEN [i \in DOMAIN d |-> IF d[i][1] = k THEN <<k, v>> ELSE d[i]]
    ELSE Append(d, <<k, v>>)

SelectSeqNotNone(s) == SelectSeq(s, LAMBDA w : w # None)

---------------------------------------------------------------------------
(* normalize_weights *)

\* A plausible slip: only the weights > 0 enter the total.
normalize_weights_positive_total(p) ==
    LET total == RSum(SelectSeq(Values(p), LAMBDA w : w # None /\ RPos(w)))
    IN  IF total = Zero
        THEN p
        ELSE [i \in DOMAIN p |->
                <<p[i][1],
                  IF p[i][2] # None THEN RDiv(p[i][2], total) ELSE Zero>>]

\* A plausible slip: the zero-total branch returns a cleaned copy, not the argument.
normalize_weights_cleaned(p) ==
    LET total == RSum(SelectSeqNotNone(Values(p)))
    IN  [i \in DOMAIN p |->
            <<p[i][1],
              IF p[i][2] = None THEN Zero
              ELSE IF total = Zero THEN p[i][2]
              ELSE RDiv(p[i][2], total)>>]

normalize_weights(p) ==
    LET total == RSum(SelectSeqNotNone(Values(p)))
    IN  IF total = Zero
        THEN p
        ELSE [i \in DOMAIN p |->
                <<p[i][1],
                  IF p[i][2] # None THEN RDiv(p[i][2], total) ELSE Zero>>]

---------------------------------------------------------------------------
(* Arguments *)

SymbolNames == <<"A", "B", "C", "D", "E">>
Symbols == {SymbolNames[i] : i \in 1..MaxSymbols}

\* Sequences of distinct symbols.
RECURSIVE KeyOrders(_)
KeyOrders(n) ==
    IF n = 0 THEN {<<>>}
    ELSE LET shorter == KeyOrders(n - 1)
         IN  shorter \cup
             {Append(k, s) : k \in {x \in shorter : Len(x) = n - 1},
                             s \in Symbols}

DistinctKeyOrders == {k \in KeyOrders(MaxSymbols) :
                        \A i, j \in DOMAIN k : i # j => k[i] # k[j]}

Dicts(weights) ==
    UNION {{[i \in DOMAIN k |-> <<k[i], w[i]>>] : w \in [DOMAIN k -> weights]} :
            k \in DistinctKeyOrders}

\* Weights handed to normalize_weights: absent, negative, zero, positive.
NormWeights == {None, Rat(-1, 1), Zero, Rat(1, 1), Rat(3, 1)}

---------------------------------------------------------------------------
(* The price provider, yf.download *)

Dates == 1..MaxDate

\* The close of a symbol on a trading date is a fact of the market; what a
\* download returns of it (which dates, or nothing, or an error) is not.
CloseTable ==
    [A |-> <<100, 110, 121, 110, 55>>,
     B |-> <<50, 45, 54, 27, 27>>,
     C |-> <<20, 20, 25, 20, 10>>,
     D |-> <<10, 12, 9, 9, 18>>,
     E |-> <<8, 4, 4, 2, 1>>]

\* What one download can give back: a frame with a Close column over some
\* non-empty set of dates, an empty frame, a non-empty frame that has no Close
\* column, or an exception.
Downloads(symbol) ==
    {[kind |-> "data", close |-> [d \in D |-> CloseTable[symbol][d]]] :
        D \in (SUBSET Dates) \ {{}}}
    \cup {[kind |-> k, close |-> <<>>] : k \in {"empty", "noclose", "raise"}}

---------------------------------------------------------------------------
(* pandas *)

\* A missing value.
NaN == <<>>

Min(S) == CHOOSE x \in S : \A y \in S : x <= y
Max(S) == CHOOSE x \in S : \A y \in S : x >= y

RECURSIVE SortedSeq(_)
SortedSeq(S) == IF S = {} THEN <<>> ELSE <<Min(S)>> \o SortedSeq(S \ {Min(S)})

SeqToSet(s) == {s[i] : i \in DOMAIN s}

\* A plausible slip: the change is taken relative to the later close.
pct_change_of_later(close) ==
    [d \in DOMAIN close |->
        IF d = Min(DOMAIN close) THEN NaN
        ELSE LET prev == Max({e \in DOMAIN close : e < d})
             IN  Rat(close[d] - close[prev], close[d])]

\* Series.pct_change(): no value on the first date, then the relative change
\* from the previous date the series has.
pct_change(close) ==
    [d \in DOMAIN close |->
        IF d = Min(DOMAIN close) THEN NaN
        ELSE LET prev == Max({e \in DOMAIN close : e < d})
             IN  Rat(close[d] - close[prev], close[prev])]

\* pd.DataFrame(): no rows, no columns.
EmptyFrame == [index |-> <<>>, cols |-> <<>>]

\* DataFrame.empty
FrameEmpty(df) == Len(df.index) = 0 \/ Len(df.cols) = 0

\* df[name] = series. A frame without rows takes the index of the series; a
\* frame with rows keeps its index and the series is aligned to it: dates the
\* frame lacks are dropped, dates the series lacks become NaN.
SetColumn(df, name, series) ==
    LET index == IF Len(df.index) = 0 /\ DOMAIN series # {}
                 THEN SortedSeq(DOMAIN series)
                 ELSE df.index
        column == [d \in SeqToSet(index) |->
                     IF d \in DOMAIN series THEN series[d] ELSE NaN]
    IN  [index |-> index, cols |-> DictSet(df.cols, name, column)]

\* A plausible slip: missing values are filled with 0 and every row is kept.
fillna_zero(df) ==
    [index |-> df.index,
     cols |-> [i \in DOMAIN df.cols |->
                <<df.cols[i][1],
                  [d \in SeqToSet(df.index) |->
                     IF df.cols[i][2][d] = NaN THEN Zero ELSE df.cols[i][2][d]]>>]]

\* DataFrame.dropna(): only the rows without any NaN remain.
dropna(df) ==
    LET index == SelectSeq(df.index,
                    LAMBDA d : \A i \in DOMAIN df.cols : df.cols[i][2][d] # NaN)
    IN  [index |-> index,
         cols |-> [i \in DOMAIN df.cols |->
                    <<df.cols[i][1], [d \in SeqToSet(index) |-> df.cols[i][2][d]]>>]]

\* A plausible slip: the running sum of the returns instead of the product.
cumsum_growth(index, returns) ==
    [i \in DOMAIN index |->
        <<index[i], RAdd(One, RSum([j \in 1..i |-> returns[index[j]]]))>>]

RECURSIVE RProd(_)
RProd(s) == IF s = <<>> THEN One ELSE RMul(Head(s), RProd(Tail(s)))

\* (1 + returns).cumprod(), as the sequence of <<date, value>> in date order.
cumprod_growth(index, returns) ==
    [i \in DOMAIN index |->
        <<index[i], RProd([j \in 1..i |-> RAdd(One, returns[index[j]])])>>]

---------------------------------------------------------------------------
(* get_portfolio_data *)

NoneResult == [none |-> TRUE, series |-> <<>>]
SeriesResult(s) == [none |-> FALSE, series |-> s]

\* sum(portfolio[symbol] for symbol in valid_symbols)
TotalWeight(p, valid) == RSum([i \in DOMAIN valid |-> Get(p, valid[i])])

\* A plausible slip: the weights are used as given, not rescaled.
WeightedReturnsRaw(p, df, valid) ==
    [d \in SeqToSet(df.index) |->
        RSum([i \in DOMAIN valid |-> RMul(Get(df.cols, valid[i])[d], Get(p, valid[i]))])]

\* weighted_returns: per date, the sum over the valid symbols of the return
\* times portfolio[symbol] / total_weight.
WeightedReturns(p, df, valid) ==
    LET total_weight == TotalWeight(p, valid)
    IN  [d \in SeqToSet(df.index) |->
            RSum([i \in DOMAIN valid |->
                    RMul(Get(df.cols, valid[i])[d],
                         RDiv(Get(p, valid[i]), total_weight))])]

\* The part of get_portfolio_data after the fetch loop.
Aggregate(p, df, valid) ==
    IF FrameEmpty(df) THEN NoneResult
    ELSE LET clean == dropna(df)
         IN  IF FrameEmpty(clean) THEN NoneResult
             ELSE IF TotalWeight(p, valid) = Zero THEN NoneResult
             ELSE SeriesResult(cumprod_growth(clean.index,
                                              WeightedReturns(p, clean, valid)))

\* A plausible slip: a failed download is tried again (no bound on the tries).
AfterFailedDownloadRetry(i) == i

\* After a failed download the loop goes on to the next symbol.
AfterFailedDownload(i) == i + 1

\* A plausible slip: the exception leaves the function.
OuterExceptReraise == [status |-> "raised", result |-> NoneResult]

\* except Exception: st.error(...); return None
OuterExcept == [status |-> "returned", result |-> NoneResult]

\* Weights handed to get_portfolio_data: absent, zero, positive fractions.
FetchWeights == {None, Zero, Rat(1, 4), Rat(1, 2)}

\* Portfolios handed to get_portfolio_data: fractions of one whole, so the
\* weights that are present total at most 1.
FetchPortfolios ==
    {p \in UNION {{[i \in 1..n |-> <<SymbolNames[i], w[i]>>] : w \in [1..n -> FetchWeights]} :
                    n \in 0..MaxSymbols} :
        ~RPos(RSub(RSum(SelectSeqNotNone(Values(p))), One))}

GpIdle ==
    /\ portfolio = <<>>
    /\ pos = 0
    /\ portfolio_data = EmptyFrame
    /\ valid_symbols = <<>>
    /\ warnings = <<>>
    /\ errors = <<>>
    /\ status = "idle"
    /\ result = NoneResult
    /\ calls = <<>>

GpStart ==
    /\ portfolio \in FetchPortfolios
    /\ pos = 1
    /\ portfolio_data = EmptyFrame
    /\ valid_symbols = <<>>
    /\ warnings = <<>>
    /\ errors = <<>>
    /\ status = "running"
    /\ result = NoneResult
    /\ calls = <<>>

InLoop == status = "running" /\ portfolio # <<>> /\ pos \in DOMAIN portfolio

\* if not portfolio: return None
EmptyPortfolio ==
    /\ status = "running"
    /\ portfolio = <<>>
    /\ status' = "returned"
    /\ result' = NoneResult
    /\ UNCHANGED <<portfolio, pos, portfolio_data, valid_symbols, warnings, errors, calls>>
    /\ UNCHANGED notGp

\* weight > 0 with weight None raises TypeError, which the outer handler takes.
WeightTypeError ==
    /\ InLoop
    /\ portfolio[pos][2] = None
    /\ errors' = Append(errors, "Error processing portfolio data")
    /\ status' = OuterExcept.status
    /\ result' = OuterExcept.result
    /\ UNCHANGED <<portfolio, pos, portfolio_data, valid_symbols, warnings, calls>>
    /\ UNCHANGED notGp

\* A symbol whose weight is not > 0 is not fetched.
SkipSymbol ==
    /\ InLoop
    /\ portfolio[pos][2] # None
    /\ ~RPos(portfolio[pos][2])
    /\ pos' = pos + 1
    /\ UNCHANGED <<portfolio, portfolio_data, valid_symbols, warnings, errors,
                   status, result, calls>>
    /\ UNCHANGED notGp

Fetching(symbol, hist) ==
    /\ InLoop
    /\ symbol = portfolio[pos][1]
    /\ portfolio[pos][2] # None
    /\ RPos(portfolio[pos][2])
    /\ calls' = Append(calls, [symbol |-> symbol, hist |-> hist])

\* The download has rows and a Close column.
FetchData ==
    \E symbol \in Symbols : \E hist \in Downloads(symbol) :
        /\ Fetching(symbol, hist)
        /\ hist.kind = "data"
        /\ portfolio_data' = SetColumn(portfolio_data, symbol, pct_change(hist.close))
        /\ valid_symbols' = Append(valid_symbols, symbol)
        /\ pos' = pos + 1
        /\ UNCHANGED <<portfolio, warnings, errors, status, result>>
        /\ UNCHANGED notGp

\* The download is empty or has no Close column.
FetchNoData ==
    \E symbol \in Symbols : \E hist \in Downloads(symbol) :
        /\ Fetching(symbol, hist)
        /\ hist.kind \in {"empty", "noclose"}
        /\ warnings' = Append(warnings, <<"No data available for", symbol>>)
        /\ pos' = AfterFailedDownload(pos)
        /\ UNCHANGED <<portfolio, portfolio_data, valid_symbols, errors, status, result>>
        /\ UNCHANGED notGp

\* The download raises.
FetchRaises ==
    \E symbol \in Symbols : \E hist \in Downloads(symbol) :
        /\ Fetching(symbol, hist)
        /\ hist.kind = "raise"
        /\ warnings' = Append(warnings, <<"Error fetching data for", symbol>>)
        /\ pos' = AfterFailedDownload(pos)
        /\ UNCHANGED <<portfolio, portfolio_data, valid_symbols, errors, status, result>>
        /\ UNCHANGED notGp

\* The loop is over: the frame is cleaned, blended and accumulated.
Finish ==
    /\ status = "running"
    /\ portfolio # <<>>
    /\ pos = Len(portfolio) + 1
    /\ result' = Aggregate(portfolio, portfolio_data, valid_symbols)
    /\ status' = "returned"
    /\ UNCHANGED <<portfolio, pos, portfolio_data, valid_symbols, warnings, errors, calls>>
    /\ UNCHANGED notGp

GpNext ==
    \/ EmptyPortfolio
    \/ WeightTypeError
    \/ SkipSymbol
    \/ FetchData
    \/ FetchNoData
    \/ FetchRaises
    \/ Finish

---------------------------------------------------------------------------
(* What the claims about get_portfolio_data speak of, read off the calls made *)

Done == status = "returned"

CallsFor(s) == {i \in DOMAIN calls : calls[i].symbol = s}
Attempts(s) == Cardinality(CallsFor(s))
HistOf(s) == calls[Min(CallsFor(s))].hist

\* Symbols with weight > 0.
PositiveSymbols ==
    {portfolio[i][1] : i \in {j \in DOMAIN portfolio :
                                portfolio[j][2] # None /\ RPos(portfolio[j][2])}}

\* Symbols whose download gave nothing usable, and those whose download was accepted.
FailedSymbols == {s \in Symbols : \E i \in CallsFor(s) : calls[i].hist.kind # "data"}
Survivors == {s \in Symbols : \E i \in CallsFor(s) : calls[i].hist.kind = "data"}

PriceDates(s) == DOMAIN HistOf(s).close
ReturnDates(s) == PriceDates(s) \ {Min(PriceDates(s))}

\* Survivors whose price series has at least 2 points, so at least one return.
UsableSurvivors == {s \in Survivors : ReturnDates(s) # {}}

\* price[t] / price[t-1] - 1 on the symbol's own dates.
DailyReturn(s, d) ==
    LET close == HistOf(s).close
        before == Max({e \in PriceDates(s) : e < d})
    IN  RSub(Rat(close[d], close[before]), One)

RECURSIVE SetToSeq(_)
SetToSeq(S) ==
    IF S = {} THEN <<>>
    ELSE LET x == CHOOSE y \in S : TRUE
         IN  <<x>> \o SetToSeq(S \ {x})

SumOver(S, F(_)) ==
    LET q == SetToSeq(S)
    IN  RSum([i \in DOMAIN q |-> F(q[i])])

\* Original weight over the sum of the original weights of the set.
Renormalized(s, S) ==
    LET w(t) == Get(portfolio, t)
    IN  RDiv(Get(portfolio, s), SumOver(S, w))

\* Sum of renormalized weight times daily return over the symbols of S that
\* have a return on d.
Blended(d, S) ==
    LET part(s) == IF d \in ReturnDates(s)
                   THEN RMul(Renormalized(s, S), DailyReturn(s, d))
                   ELSE Zero
    IN  SumOver(S, part)

ResultDates == [i \in DOMAIN result.series |-> result.series[i][1]]
ResultValues == [i \in DOMAIN result.series |-> result.series[i][2]]

UnionDates == UNION {ReturnDates(s) : s \in Survivors}
CommonDates == {d \in UnionDates : \A s \in Survivors : d \in ReturnDates(s)}

WarnedSymbols == {warnings[i][2] : i \in DOMAIN warnings}

\* The series is the running product of 1 + Blended over its dates.
IsRunningProduct(S) ==
    \A k \in DOMAIN result.series :
        ResultValues[k] =
            RMul(IF k = 1 THEN One ELSE ResultValues[k - 1],
                 RAdd(One, Blended(ResultDates[k], S)))

---------------------------------------------------------------------------
(* Claims about get_portfolio_data *)

\* C3 (as claimed): when some positively weighted symbols fail to fetch and at
\* least one symbol is fetched with usable data, the result is a series, it
\* blends the surviving symbols with original weight / sum of the survivors'
\* original weights, and every failed symbol has a warning.
C3_PartialFailureGivesSeries ==
    (Done /\ errors = <<>> /\ FailedSymbols # {} /\ UsableSurvivors # {})
        => /\ ~result.none
           /\ IsRunningProduct(UsableSurvivors)
           /\ FailedSymbols \subseteq WarnedSymbols

\* C4: get_portfolio_data never raises; it returns None for an empty
\* portfolio, for weights that are all zero and when every positively weighted
\* symbol fails; an exception of the provider becomes a warning for that symbol,
\* an exception in the function body an error message and a None result.
C4_NullNeverRaises ==
    /\ status # "raised"
    /\ Done =>
        /\ portfolio = <<>> => result.none
        /\ (\A i \in DOMAIN portfolio : portfolio[i][2] = Zero) => result.none
        /\ PositiveSymbols \subseteq FailedSymbols => result.none
        /\ (\E i \in DOMAIN portfolio : portfolio[i][2] = None)
              => (errors # <<>> /\ result.none)
        /\ errors # <<>> => result.none
        /\ \A i \in DOMAIN calls :
              calls[i].hist.kind = "raise"
                 => /\ calls[i].symbol \in WarnedSymbols
                    /\ calls[i].symbol \notin SeqToSet(valid_symbols)

\* Every positively weighted symbol failed, one of them by an exception.
C4_Witness ==
    /\ Done
    /\ Cardinality(PositiveSymbols) >= 2
    /\ PositiveSymbols \subseteq FailedSymbols
    /\ \E i \in DOMAIN calls : calls[i].hist.kind = "raise"
    /\ result.none

\* The attempt budgets the retry claim is read with.
AttemptBudgets == {1, 2, 3}

\* C5 (as claimed): a symbol is declared failed only after max_attempts failed
\* attempts, for any max_attempts >= 1.
C5_FailsOnlyAfterMaxAttempts ==
    \A max_attempts \in AttemptBudgets :
        \A s \in WarnedSymbols : Attempts(s) >= max_attempts

\* C5 (amended): each positively weighted symbol is downloaded exactly once; a
\* download that is empty, lacks Close or raises is never repeated and the
\* symbol is declared failed (a warning, no data) right after that one attempt;
\* an accepted download makes the symbol valid.
C5_SingleAttempt ==
    /\ \A s \in Symbols : Attempts(s) <= 1
    /\ \A i \in DOMAIN calls : calls[i].symbol \in PositiveSymbols
    /\ WarnedSymbols = FailedSymbols
    /\ SeqToSet(valid_symbols) = Survivors
    /\ Len(warnings) + Len(valid_symbols) = Len(calls)
    /\ Done /\ errors = <<>> => \A s \in PositiveSymbols : Attempts(s) = 1

\* All three kinds of failed download happened, each followed by the next symbol.
C5_Witness ==
    /\ Done
    /\ \A k \in {"empty", "noclose", "raise"} :
          \E i \in DOMAIN calls : calls[i].hist.kind = k
    /\ Cardinality(WarnedSymbols) >= 3

\* C6 (as claimed): a fetched symbol with fewer than 2 price points never
\* aborts the portfolio: if another symbol has a non-empty return series the
\* result is a series.
C6_ShortSeriesDoesNotAbort ==
    (/\ Done
     /\ errors = <<>>
     /\ \E s \in Survivors : ReturnDates(s) = {}
     /\ UsableSurvivors # {})
        => ~result.none

\* C8 (as claimed): the series has one point for every date that at least one
\* surviving symbol has a return on, a symbol contributing 0 where it has none.
C8_DateUnion ==
    (Done /\ ~result.none)
        => /\ ResultDates = SortedSeq(UnionDates)
           /\ IsRunningProduct(Survivors)

\* C8 (amended): the series has one point for exactly the dates on which every
\* accepted symbol has a return (the date intersection); a date that any
\* accepted symbol lacks is dropped, and the result is None when there is no
\* common date.
C8_DateIntersection ==
    (Done /\ errors = <<>> /\ Survivors # {})
        => /\ result.none <=> CommonDates = {}
           /\ ~result.none => ResultDates = SortedSeq(CommonDates)

\* A series came back although one accepted symbol lacks a date another has.
C8_Witness ==
    /\ Done
    /\ ~result.none
    /\ Cardinality(Survivors) >= 2
    /\ CommonDates # UnionDates
    /\ ResultDates = SortedSeq(CommonDates)

\* {A: 0.6, B: 0.4} with A closing at 100, 110 and B at 50, 45, as
\* get_portfolio_data computes it.
ExampleSeries ==
    LET p == <<<<"A", Rat(3, 5)>>, <<"B", Rat(2, 5)>>>>
        a == pct_change(<<100, 110>>)
        b == pct_change(<<50, 45>>)
    IN  Aggregate(p, SetColumn(SetColumn(EmptyFrame, "A", a), "B", b), <<"A", "B">>)

\* C9: the series is the running product of 1 + blended return in date order,
\* the blended return being the sum over the accepted symbols of renormalized
\* weight times daily return; no accepted symbol's first price date has a
\* point; {A: 0.6, B: 0.4} with A = [100, 110], B = [50, 45] gives [1.02].
C9_RunningProduct ==
    (Done /\ ~result.none)
        => /\ \A k \in DOMAIN result.series :
                 \A s \in Survivors : ResultDates[k] \in ReturnDates(s)
           /\ \A k \in DOMAIN result.series :
                 k > 1 => ResultDates[k - 1] < ResultDates[k]
           /\ IsRunningProduct(Survivors)
           /\ \A s \in Survivors : Min(PriceDates(s)) \notin SeqToSet(ResultDates)
           /\ ExampleSeries = SeriesResult(<<<<2, Rat(51, 50)>>>>)

\* Two symbols with different weights blended over two dates.
C9_Witness ==
    /\ Done
    /\ ~result.none
    /\ Len(result.series) >= 2
    /\ Cardinality(Survivors) >= 2
    /\ \E s, t \in Survivors : Get(portfolio, s) # Get(portfolio, t)
    /\ ResultValues[2] # ResultValues[1]

---------------------------------------------------------------------------
(* display_metric and the metrics block *)

\* Text is a sequence of one-character strings; "No data" is one token.
NoData == <<"No data">>
DigitChars == <<"0", "1", "2", "3", "4", "5", "6", "7", "8", "9">>

RECURSIVE Digits(_)
Digits(n) == IF n < 10 THEN <<DigitChars[n + 1]>>
             ELSE Append(Digits(n \div 10), DigitChars[(n % 10) + 1])

\* |x| * 100 rounded to the nearest integer, ties to even.
RoundCenti(x) ==
    LET scaled == Abs(x[1]) * 100
        q == scaled \div x[2]
        r == scaled % x[2]
    IN  IF 2 * r > x[2] \/ (2 * r = x[2] /\ q % 2 = 1) THEN q + 1 ELSE q

\* A plausible slip: the sign is always written.
FormatSigned2f(x) ==
    LET c == RoundCenti(x)
    IN  (IF x[1] < 0 THEN <<"-">> ELSE <<"+">>)
        \o Digits(c \div 100)
        \o <<".", DigitChars[((c \div 10) % 10) + 1], DigitChars[(c % 10) + 1]>>

\* f"{x:.2f}": a minus sign for a negative number and none otherwise, the
\* integer part, a point and two decimals.
Format2f(x) ==
    LET c == RoundCenti(x)
    IN  (IF x[1] < 0 THEN <<"-">> ELSE <<>>)
        \o Digits(c \div 100)
        \o <<".", DigitChars[((c \div 10) % 10) + 1], DigitChars[(c % 10) + 1]>>

Last(s) == s[Len(s)]

\* A plausible slip: the first value of the series is taken.
TotalReturnOfFirst(series) == RMul(RSub(series[1][2], One), Rat(100, 1))

\* (returns.iloc[-1] - 1) * 100
TotalReturn(series) == RMul(RSub(Last(series)[2], One), Rat(100, 1))

HasData(returns) == ~returns.none /\ Len(returns.series) > 0

display_metric(returns, benchmark_return) ==
    IF HasData(returns)
    THEN LET total_return == TotalReturn(returns.series)
         IN  [value |-> Format2f(total_return) \o <<"%">>,
              delta |-> IF benchmark_return = None THEN None
                        ELSE Format2f(RSub(total_return, benchmark_return)) \o <<"%">>]
    ELSE [value |-> NoData, delta |-> None]

\* benchmark_return as the block computes it before the four calls.
BenchmarkReturn(benchmark_returns) ==
    IF HasData(benchmark_returns) THEN TotalReturn(benchmark_returns.series) ELSE None

\* Series handed to the metrics block: None, an empty series, and series
\* ending at 1.12, 1.08, 0.95 and 4/3.
MetricSeries ==
    {NoneResult,
     SeriesResult(<<>>),
     SeriesResult(<<<<2, Rat(28, 25)>>>>),
     SeriesResult(<<<<2, Rat(51, 50)>>, <<3, Rat(27, 25)>>>>),
     SeriesResult(<<<<2, Rat(11, 10)>>, <<3, Rat(19, 20)>>>>),
     SeriesResult(<<<<3, Rat(4, 3)>>>>)}

DmIdle ==
    /\ dm_pc = "idle"
    /\ dm_returns = <<>>
    /\ metrics = <<>>
    /\ dm_warning = FALSE

DmStart ==
    /\ dm_pc = "loaded"
    /\ dm_returns \in [1..4 -> MetricSeries]
    /\ metrics = <<>>
    /\ dm_warning = FALSE

\* At least one series is not None: the four metrics are shown, the benchmark
\* without a reference, the custom portfolios against the benchmark's return.
ShowMetrics ==
    /\ dm_pc = "loaded"
    /\ \E i \in 1..4 : ~dm_returns[i].none
    /\ metrics' = [i \in 1..4 |->
                    display_metric(dm_returns[i],
                                   IF i = 1 THEN None
                                   ELSE BenchmarkReturn(dm_returns[1]))]
    /\ dm_pc' = "shown"
    /\ UNCHANGED <<dm_returns, dm_warning>>
    /\ UNCHANGED notDm

\* Every series is None: only the warning is shown.
ShowNoValidData ==
    /\ dm_pc = "loaded"
    /\ \A i \in 1..4 : dm_returns[i].none
    /\ dm_warning' = TRUE
    /\ dm_pc' = "shown"
    /\ UNCHANGED <<dm_returns, metrics>>
    /\ UNCHANGED notDm

DmNext ==
    \/ ShowMetrics
    \/ ShowNoValidData

---------------------------------------------------------------------------
(* Claims about the metric *)

DigitValue(c) == (CHOOSE k \in 1..10 : DigitChars[k] = c) - 1

RECURSIVE DigitsValue(_)
DigitsValue(t) ==
    IF t = <<>> THEN 0
    ELSE 10 * DigitsValue(SubSeq(t, 1, Len(t) - 1)) + DigitValue(Last(t))

\* The text without a leading sign and without the trailing "%".
Unsigned(t) ==
    LET body == SubSeq(t, 1, Len(t) - 1)
    IN  IF Head(body) \in {"-", "+"} THEN Tail(body) ELSE body

\* The hundredths a shown percentage stands for, sign apart.
ShownCenti(t) ==
    LET u == Unsigned(t)
    IN  DigitsValue(SelectSeq(u, LAMBDA c : c # "."))

\* The text shows x to two decimals: "%" at the end, a point before the last
\* two digits, and a magnitude within half a hundredth of |x|.
ShowsPercent(t, x) ==
    /\ Len(t) >= 5
    /\ Last(t) = "%"
    /\ Unsigned(t)[Len(Unsigned(t)) - 2] = "."
    /\ 2 * Abs(Abs(x[1]) * 100 - ShownCenti(t) * x[2]) <= x[2]

\* The reference the metric in column i is compared with, if any.
Reference(i) ==
    IF i > 1 /\ HasData(dm_returns[1])
    THEN RMul(RSub(Last(dm_returns[1].series)[2], One), Rat(100, 1))
    ELSE None

ExpectedTotal(i) == RMul(RSub(Last(dm_returns[i].series)[2], One), Rat(100, 1))

\* "No data" with no delta exactly for a None or empty series; otherwise the
\* value shows (last - 1) * 100, and the delta shows that minus the reference
\* when there is one and is absent when there is none.
MetricAgrees(i) ==
    /\ metrics[i].value = NoData <=> (dm_returns[i].none \/ dm_returns[i].series = <<>>)
    /\ metrics[i].value = NoData => metrics[i].delta = None
    /\ metrics[i].value # NoData =>
          /\ ShowsPercent(metrics[i].value, ExpectedTotal(i))
          /\ Head(metrics[i].value) = "-" <=> ExpectedTotal(i)[1] < 0
          /\ metrics[i].delta = None <=> Reference(i) = None
          /\ metrics[i].delta # None =>
                ShowsPercent(metrics[i].delta, RSub(ExpectedTotal(i), Reference(i)))

DeltaValue(i) == RSub(ExpectedTotal(i), Reference(i))

\* C7 (as claimed): the metric is as described and the delta is a signed
\* percentage: "+" before a positive difference, "-" before a negative one.
C7_SignedDelta ==
    dm_pc = "shown" /\ metrics # <<>> =>
        \A i \in 1..4 :
            /\ MetricAgrees(i)
            /\ metrics[i].delta # None =>
                  /\ RPos(DeltaValue(i)) => Head(metrics[i].delta) = "+"
                  /\ DeltaValue(i)[1] < 0 => Head(metrics[i].delta) = "-"

\* C7 (amended): the metric is as described; the delta is the difference to
\* two decimals with "%", with "-" before a negative difference and no sign
\* before a positive or zero one.
C7_UnsignedPositiveDelta ==
    dm_pc = "shown" /\ metrics # <<>> =>
        \A i \in 1..4 :
            /\ MetricAgrees(i)
            /\ metrics[i].delta # None =>
                  /\ Head(metrics[i].delta) # "+"
                  /\ Head(metrics[i].delta) = "-" <=> DeltaValue(i)[1] < 0

\* 12.00% against a benchmark at 8.00%: the delta is 4.00%, next to a column
\* without data.
C7_Witness ==
    /\ dm_pc = "shown"
    /\ metrics # <<>>
    /\ metrics[1].value = <<"8", ".", "0", "0", "%">>
    /\ metrics[1].delta = None
    /\ metrics[2].value = <<"1", "2", ".", "0", "0", "%">>
    /\ metrics[2].delta = <<"4", ".", "0", "0", "%">>
    /\ metrics[3].value = NoData
    /\ metrics[4].delta # None /\ Head(metrics[4].delta) = "-"

---------------------------------------------------------------------------
(* Session state and the portfolio editors *)

\* str.strip(): leading and trailing blanks removed.
RECURSIVE LStrip(_)
LStrip(t) == IF t # <<>> /\ Head(t) = " " THEN LStrip(Tail(t)) ELSE t

RECURSIVE RStrip(_)
RStrip(t) == IF t # <<>> /\ Last(t) = " " THEN RStrip(SubSeq(t, 1, Len(t) - 1)) ELSE t

\* str.upper() on the letters the editors are given.
UpperChar(c) == CASE c = "a" -> "A" [] c = "b" -> "B" [] OTHER -> c

StripUpper(t) == LET u == RStrip(LStrip(t)) IN [i \in DOMAIN u |-> UpperChar(u[i])]

\* The loop over the rows: a row with a symbol and a weight > 0 sets
\* portfolio[symbol] = weight / 100.
RECURSIVE EditorRows(_, _)
EditorRows(rows, p) ==
    IF rows = <<>> THEN p
    ELSE LET symbol == StripUpper(Head(rows)[1])
             weight == Head(rows)[2]
         IN  EditorRows(Tail(rows),
                        IF symbol # <<>> /\ weight > 0
                        THEN DictSet(p, symbol, Rat(weight, 100))
                        ELSE p)

\* A plausible slip: the portfolio is returned as entered.
portfolio_input_section_raw(rows) == EditorRows(rows, <<>>)

portfolio_input_section(rows) == normalize_weights(EditorRows(rows, <<>>))

\* What a user can leave in a row: symbol text (as typed) and a weight in percent.
RawSymbols == {<<>>, <<" ">>, <<" ", "a">>, <<"A">>, <<"b">>}
WeightInputs == {0, 50}
RowInputs == [1..MaxRows -> RawSymbols \X WeightInputs]

PortfolioNames == <<"benchmark_portfolio", "custom_portfolio",
                    "custom_portfolio2", "custom_portfolio3">>

\* The portfolios the script puts into an empty session.
InitialSession ==
    [benchmark_portfolio |->
        <<<<<<"X", "I", "U", ".", "T", "O">>, Rat(35, 100)>>,
          <<<<"V", "F", "V", ".", "T", "O">>, Rat(65, 100)>>,
          <<<<"Z", "A", "G", ".", "T", "O">>, Rat(0, 100)>>>>,
     custom_portfolio |->
        <<<<<<"A", "V", "D", "V">>, Rat(8, 100)>>,
          <<<<"A", "V", "U", "V">>, Rat(8, 100)>>,
          <<<<"V", "U", "N", ".", "T", "O">>, Rat(25, 100)>>,
          <<<<"X", "E", "C", ".", "T", "O">>, Rat(10, 100)>>,
          <<<<"X", "E", "F", ".", "T", "O">>, Rat(20, 100)>>,
          <<<<"X", "I", "C", ".", "T", "O">>, Rat(29, 100)>>>>,
     custom_portfolio2 |-> <<>>,
     custom_portfolio3 |-> <<>>]

SeIdle ==
    /\ session = InitialSession
    /\ step = 5
    /\ written = {}

SeStart ==
    /\ session = InitialSession
    /\ step = 0
    /\ written = {}

\* The script up to the editors: the four series are computed and shown;
\* the session state is only read.
LoadAndShow ==
    /\ step = 0
    /\ step' = 1
    /\ UNCHANGED <<session, written>>
    /\ UNCHANGED notSe

\* Editor k: st.session_state.<name> = portfolio_input_section(...). After the
\* fourth editor the script ends and the next interaction runs it again.
Editor(k) ==
    /\ step = k
    /\ \E rows \in RowInputs :
          session' = [session EXCEPT ![PortfolioNames[k]] = portfolio_input_section(rows)]
    /\ written' = written \cup {PortfolioNames[k]}
    /\ step' = IF k = 4 THEN 0 ELSE k + 1
    /\ UNCHANGED notSe

BenchmarkEditor == Editor(1)
CustomEditor1 == Editor(2)
CustomEditor2 == Editor(3)
CustomEditor3 == Editor(4)

\* except Exception: an exception inside the try block ends the run; the
\* editors not yet reached write nothing.
MainExcept ==
    /\ step \in 1..4
    /\ step' = 0
    /\ UNCHANGED <<session, written>>
    /\ UNCHANGED notSe

SeNext ==
    \/ LoadAndShow
    \/ BenchmarkEditor
    \/ CustomEditor1
    \/ CustomEditor2
    \/ CustomEditor3
    \/ MainExcept

---------------------------------------------------------------------------
(* Claim about the session store *)

\* C10: each of the four portfolios in session state is empty or has weights
\* summing to 1, and every portfolio an editor wrote back holds only non-empty
\* symbols with weight > 0.
C10_SessionPortfoliosNormalized ==
    \A k \in 1..4 :
        LET p == session[PortfolioNames[k]]
        IN  /\ p = <<>> \/ RSum(Values(p)) = One
            /\ PortfolioNames[k] \in written =>
                  \A i \in DOMAIN p : p[i][1] # <<>> /\ p[i][2] # None /\ RPos(p[i][2])

\* All four were written back: one holding a single symbol (rows totalling
\* 50, or the same symbol twice), one emptied, one with two symbols.
C10_Witness ==
    /\ written = {PortfolioNames[k] : k \in 1..4}
    /\ session.benchmark_portfolio = <<<<<<"A">>, One>>>>
    /\ session.custom_portfolio = <<>>
    /\ Len(session.custom_portfolio2) = 2

---------------------------------------------------------------------------
(* Specification of normalize_weights *)

NwIdle ==
    /\ nw_pc = "idle"
    /\ nw_in = <<>>
    /\ nw_out = <<>>

NwStart ==
    /\ nw_pc = "call"
    /\ nw_in \in Dicts(NormWeights)
    /\ nw_out = <<>>

NormalizeWeights ==
    /\ nw_pc = "call"
    /\ nw_out' = normalize_weights(nw_in)
    /\ nw_pc' = "done"
    /\ UNCHANGED nw_in
    /\ UNCHANGED notNw

NormNext == NormalizeWeights

---------------------------------------------------------------------------
(* Claims about normalize_weights *)

Present(p) == {i \in DOMAIN p : p[i][2] # None}

\* Sum of the weights that are present.
PresentTotal(p) ==
    LET w(i) == p[i][2]
    IN  SumOver(Present(p), w)

\* Sum of the weights that are present and > 0.
PositiveTotal(p) ==
    LET w(i) == p[i][2]
    IN  SumOver({i \in Present(p) : RPos(p[i][2])}, w)

\* C1: when the weights that are present have a positive sum S, the result
\* has the same symbols, each weight is the input weight / S (0 for an absent
\* weight) and the weights sum to 1.
C1_SumsToOne ==
    (nw_pc = "done" /\ RPos(PresentTotal(nw_in)))
        => /\ Keys(nw_out) = Keys(nw_in)
           /\ \A i \in DOMAIN nw_in :
                 RMul(nw_out[i][2], PresentTotal(nw_in)) =
                    (IF i \in Present(nw_in) THEN nw_in[i][2] ELSE Zero)
           /\ RSum(Values(nw_out)) = One

\* Several entries, a positive sum other than 1: every weight is rescaled.
C1_Witness ==
    /\ nw_pc = "done"
    /\ Len(nw_in) >= 2
    /\ RPos(RSub(PresentTotal(nw_in), One))
    /\ nw_out # nw_in
    /\ RSum(Values(nw_out)) = One

\* C2 (as claimed): only the weights present and > 0 are summed; when that sum
\* is 0 the input is returned unchanged, otherwise every entry whose weight is
\* absent or not positive maps to 0.
C2_SumsPositiveOnly ==
    nw_pc = "done"
        => /\ PositiveTotal(nw_in) = Zero => nw_out = nw_in
           /\ PositiveTotal(nw_in) # Zero =>
                 \A i \in DOMAIN nw_in :
                    (i \notin Present(nw_in) \/ ~RPos(nw_in[i][2]))
                        => nw_out[i][2] = Zero

\* C2 (amended): every weight that is present is summed, negative ones
\* included; when that sum is 0 the input is returned unchanged, otherwise an
\* entry whose weight is absent or zero maps to 0 and every other entry,
\* negative ones included, to its weight divided by the sum.
C2_SumsPresent ==
    nw_pc = "done"
        => /\ PresentTotal(nw_in) = Zero => nw_out = nw_in
           /\ PresentTotal(nw_in) # Zero =>
                 /\ Keys(nw_out) = Keys(nw_in)
                 /\ \A i \in DOMAIN nw_in :
                       IF i \notin Present(nw_in) \/ nw_in[i][2] = Zero
                       THEN nw_out[i][2] = Zero
                       ELSE /\ nw_out[i][2] # Zero
                            /\ RMul(nw_out[i][2], PresentTotal(nw_in)) = nw_in[i][2]

\* A negative weight was rescaled, not zeroed, next to an absent one that was.
C2_Witness ==
    /\ nw_pc = "done"
    /\ PresentTotal(nw_in) # Zero
    /\ \E i \in DOMAIN nw_in :
          /\ i \in Present(nw_in)
          /\ nw_in[i][2][1] < 0
          /\ nw_out[i][2] # Zero
    /\ \E i \in DOMAIN nw_in : i \notin Present(nw_in) /\ nw_out[i][2] = Zero

NormInit ==
    /\ NwStart
    /\ GpIdle
    /\ DmIdle
    /\ SeIdle

SpecNorm == NormInit /\ [][NormNext]_vars

PortfolioInit ==
    /\ GpStart
    /\ NwIdle
    /\ DmIdle
    /\ SeIdle

SpecPortfolio == PortfolioInit /\ [][GpNext]_vars

MetricInit ==
    /\ DmStart
    /\ NwIdle
    /\ GpIdle
    /\ SeIdle

SpecMetric == MetricInit /\ [][DmNext]_vars

Init ==
    /\ SeStart
    /\ NwIdle
    /\ GpIdle
    /\ DmIdle

Next == SeNext

Spec == Init /\ [][Next]_vars

=============================================================================
